---- MODULE Spec2Model ----
(***************************************************************************)
(* Appointment lifecycle of the Smart-Health-Portal server: booking        *)
(* (POST /api/appointments/my), status update (PUT /api/appointments/:id), *)
(* cancellation (DELETE /api/appointments/:id) and the daily reminder      *)
(* cron job, over the Appointments and Notifications tables; the list of   *)
(* a patient's appointments (GET /api/doctor/patient/:patientId/           *)
(* appointments) and the lazily initialized container client of            *)
(* routes/records.js.                                                      *)
(*                                                                         *)
(* Every `await` of a handler is a point where another handler may run,    *)
(* so each handler is a small process whose steps are its awaited calls.   *)
(* Database and e-mail failures are inputs chosen at each call.            *)
(***************************************************************************)
EXTENDS Integers, Sequences, FiniteSets, TLC

\* ------------------------------------------------------------------ bounds
MaxAppt == 2          \* appointment ids are 1..MaxAppt
MaxBooked == 1        \* appointments the booking handler creates
MaxNotif == 2         \* rows the Notifications table may hold
MaxTime == 3          \* the clock runs over 0..MaxTime
NumSweeps == 2        \* reminder ticks that may be in flight together
MaxConstructed == 4   \* container clients the process may construct

\* --------------------------------------------------------------- constants
TicksPerDay == 1      \* clock units per calendar day
DedupeDays == 2       \* DATEADD(day, -2, a.appointment_date)
NULL == -1            \* sent_at IS NULL

ApptIds == 1 .. MaxAppt
ReqIds == 0 .. (MaxAppt + 1)     \* ids a client may put in the URL
SweepIds == 1 .. NumSweeps
ApptTimes == (TicksPerDay) .. MaxTime
Statuses == {"Scheduled", "Completed", "Cancelled"}
EmailImpls == {"throwing", "swallowing"}

VARIABLES
    appts,            \* Appointments: id -> row; status "None" = no row
    notifs,           \* Notifications: sequence of rows, in insertion order
    now,              \* GETUTCDATE()
    emailImpl,        \* which sendEmail the process links against
    book,             \* POST /my handler in flight
    cancel,           \* DELETE /:id handler in flight
    sweep,            \* reminder ticks in flight
    cronDay,          \* last calendar day on which the cron fired
    resp,             \* the HTTP response the last step sent, if any
    mail,             \* the e-mail the last step attempted, if any
    _containerClient, \* routes/records.js: the cached container client, 0 = null
    clientCalls,      \* calls of getContainerClient in flight
    constructed,      \* how many container clients the process has constructed
    env               \* process.env: whether storage credentials are set

\* the state of the blob helpers of routes/records.js
recordsVars == <<_containerClient, clientCalls, constructed, env>>

vars == <<appts, notifs, now, emailImpl, book, cancel, sweep, cronDay, resp, mail,
          recordsVars>>

\* ----------------------------------------------------------------- helpers
dateOf(t) == t \div TicksPerDay       \* CAST(x AS DATE)

NoAppt == [status |-> "None", appointment_date |-> 0, patient_id |-> 0, doctor_id |-> 0]

Exists(id) == id \in ApptIds /\ appts[id].status # "None"

\* rows of appointment id
RowsOf(ns, id) == {i \in 1 .. Len(ns) : ns[i].appointment_id = id}

\* the table without the rows at the indices in del
RECURSIVE Without(_, _, _)
Without(ns, del, i) ==
    IF i > Len(ns) THEN <<>>
    ELSE (IF i \in del THEN <<>> ELSE <<ns[i]>>) \o Without(ns, del, i + 1)

\* The Notification row a handler inserts after an e-mail attempt.  kind is
\* no column of the table: it records which handler wrote the row.
NotifRowStamped(id, sentOK, t, kind) ==
    [appointment_id |-> id,
     sent_at |-> t,
     status |-> IF sentOK THEN "Sent" ELSE "Failed",
     kind |-> kind]

NotifRow(id, sentOK, t, kind) ==
    [appointment_id |-> id,
     sent_at |-> IF sentOK THEN t ELSE NULL,
     status |-> IF sentOK THEN "Sent" ELSE "Failed",
     kind |-> kind]

\* sendEmail: "ok" when the promise resolves, "throw" when it rejects.
\* The sendEmail of unnamed/part_005 rethrows a failed send; the one of
\* utils/email.js catches and logs it, so its promise resolves.
sendEmail(impl, configured, delivered) ==
    IF ~configured THEN "throw"
    ELSE IF delivered THEN "ok"
    ELSE IF impl = "swallowing" THEN "ok"
    ELSE "throw"

\* the error a response answers: err.number and err.message (0: no number)
NoCause == [number |-> 0, message |-> ""]

\* the booking request a response answers
NoRequest == [role |-> "n/a", fields |-> FALSE, patient |-> "n/a", time |-> <<>>]

\* A response: status code and body; rows are the appointments of a list.
\* cause, req, calls and caller are no part of it: they record the error
\* caught, the booking request answered, the database calls the handler made
\* for it and the doctor_id of the provider who asked.
Response(op, id, status, code) ==
    [op |-> op, id |-> id, status |-> status, code |-> code,
     msg |-> "", cause |-> NoCause, req |-> NoRequest, calls |-> <<>>,
     rows |-> {}, caller |-> 0]

NoResponse == Response("none", 0, "", 0)

\* an e-mail attempt: whether the message went out, and whether the attempt
\* was recorded in Notifications
Mail(kind, id, delivered, logged) ==
    [kind |-> kind, id |-> id, delivered |-> delivered, logged |-> logged]

NoMail == Mail("none", 0, FALSE, FALSE)

\* ------------------------------------------------------------------- Init
\* what splitToDateAndTime gives: its parts, or the message of its Error
NoSplit == [ok |-> FALSE, error |-> "", dateOnly |-> <<>>, timeOnly |-> <<>>]

BookIdle == [pc |-> "idle", id |-> 0, logged |-> FALSE, time |-> <<>>, split |-> NoSplit]

CancelIdle == [pc |-> "idle", id |-> 0, del |-> {}]

SweepIdle == [pc |-> "idle", todo |-> {}, skipped |-> {}]

\* the requests that may be inside getContainerClient at the same time
Callers == {1, 2}

ClientCallIdle == [pc |-> "idle", containerClient |-> 0]

\* let _containerClient = null, no call in flight, credentials configured
RecordsIdle ==
    /\ _containerClient = 0
    /\ clientCalls = [c \in Callers |-> ClientCallIdle]
    /\ constructed = 0
    /\ env = [credentials |-> TRUE]

Init ==
    /\ appts = [i \in ApptIds |-> NoAppt]
    /\ notifs = <<>>
    /\ now = 0
    /\ emailImpl \in EmailImpls
    /\ book = BookIdle
    /\ cancel = CancelIdle
    /\ sweep = [s \in SweepIds |-> SweepIdle]
    /\ cronDay = -1
    /\ resp = NoResponse
    /\ mail = NoMail
    /\ RecordsIdle

\* ------------------------------------------------------------------ clock
Tick ==
    /\ now < MaxTime
    /\ now' = now + 1
    /\ resp' = NoResponse
    /\ mail' = NoMail
    /\ UNCHANGED <<appts, notifs, emailImpl, recordsVars, book, cancel, sweep, cronDay>>

\* ------------------------------------------------- POST /api/appointments/my
\* A string is the sequence of its characters.
Digits == <<"0", "1", "2", "3", "4", "5", "6", "7", "8", "9">>

\* \d of the regular expression
IsDigit(c) == \E i \in 1 .. 10 : Digits[i] = c

\* Number() of a string of digits
RECURSIVE NumberOf(_)
NumberOf(str) ==
    IF str = <<>> THEN 0
    ELSE 10 * NumberOf(SubSeq(str, 1, Len(str) - 1))
           + (CHOOSE i \in 1 .. 10 : Digits[i] = str[Len(str)]) - 1

\* String(n): the decimal digits of n
RECURSIVE StringOf(_)
StringOf(n) ==
    IF n < 10 THEN <<Digits[n + 1]>>
    ELSE StringOf(n \div 10) \o <<Digits[(n % 10) + 1]>>

\* pad(n): String(n).padStart(2, "0")
pad(n) == IF n < 10 THEN <<"0">> \o StringOf(n) ELSE StringOf(n)

\* t.match(/^(\d{2}):(\d{2}):(\d{2})$/)
MatchesTime(t) ==
    /\ Len(t) = 8
    /\ \A i \in {1, 2, 4, 5, 7, 8} : IsDigit(t[i])
    /\ t[3] = ":" /\ t[6] = ":"

Thrown(message) == [NoSplit EXCEPT !.error = message]

\* splitToDateAndTime(dateStr, timeStr): the parts for the stored procedure,
\* or the Error it throws
splitToDateAndTimeLax(dateStr, timeStr) ==
    IF dateStr = <<>> \/ timeStr = <<>> THEN Thrown("date and time are required")
    ELSE LET t == IF Len(timeStr) = 5 THEN timeStr \o <<":", "0", "0">> ELSE timeStr IN
         IF ~MatchesTime(t) THEN Thrown("Invalid time; expected HH:mm or HH:mm:ss")
         ELSE LET hh == NumberOf(SubSeq(t, 1, 2))
                  mm == NumberOf(SubSeq(t, 4, 5))
                  ss == NumberOf(SubSeq(t, 7, 8)) IN
              IF hh > 24 \/ mm > 59 \/ ss > 59 THEN Thrown("Invalid time components")
              ELSE [ok |-> TRUE, error |-> "", dateOnly |-> dateStr,
                    timeOnly |-> pad(hh) \o <<":">> \o pad(mm) \o <<":">> \o pad(ss)]

splitToDateAndTime(dateStr, timeStr) ==
    IF dateStr = <<>> \/ timeStr = <<>> THEN Thrown("date and time are required")
    ELSE LET t == IF Len(timeStr) = 5 THEN timeStr \o <<":", "0", "0">> ELSE timeStr IN
         IF ~MatchesTime(t) THEN Thrown("Invalid time; expected HH:mm or HH:mm:ss")
         ELSE LET hh == NumberOf(SubSeq(t, 1, 2))
                  mm == NumberOf(SubSeq(t, 4, 5))
                  ss == NumberOf(SubSeq(t, 7, 8)) IN
              IF hh > 23 \/ mm > 59 \/ ss > 59 THEN Thrown("Invalid time components")
              ELSE [ok |-> TRUE, error |-> "", dateOnly |-> dateStr,
                    timeOnly |-> pad(hh) \o <<":">> \o pad(mm) \o <<":">> \o pad(ss)]

\* req.user.role: any string, "" when the token carries none
Roles == {"Patient", "patient", "PATIENT", "Provider", "provider", "Admin", ""}

\* toLowerCase() on the role strings the model draws from
lower(r) == IF r \in {"Patient", "PATIENT"} THEN "patient"
            ELSE IF r = "Provider" THEN "provider"
            ELSE IF r = "Admin" THEN "admin"
            ELSE r

\* isRole(role, "Patient"): case-insensitive comparison
isRoleExact(role, allowed) == role = allowed

isRole(role, allowed) == lower(role) = lower(allowed)

\* getPatientIdForUser: the patient_id of the caller's Patients row, 0 for
\* the null of a caller without one
getPatientIdForUserAny(patient) == 1

getPatientIdForUser(patient) == IF patient = "row" THEN 1 ELSE 0

\* the catch of POST /my: the status for an error number
BookErrorStatusNoFk(num) ==
    IF num \in {50001, 50002, 50003, 50004, 50005, 50006} THEN 400 ELSE 500

BookErrorStatus(num) ==
    IF num \in {50001, 50002, 50003, 50004, 50005, 50006} THEN 400
    ELSE IF num = 547 THEN 400
    ELSE 500

\* the id dbo.ScheduleAppointment gives the next appointment (0: table full)
NextApptId == IF \A i \in ApptIds : Exists(i) THEN 0
              ELSE CHOOSE i \in ApptIds : ~Exists(i) /\ \A j \in 1 .. (i - 1) : Exists(j)

\* dbo.ScheduleAppointment inserts the appointment, status Scheduled
ScheduleAppointment(as, id, patient_id, doctor_id, date) ==
    [as EXCEPT ![id] = [status |-> "Scheduled", appointment_date |-> date,
                        patient_id |-> patient_id, doctor_id |-> doctor_id]]

\* An error as the handler catches it.  The driver reports the number and
\* the message of a database error in err.originalError.info, or in err
\* itself; a JavaScript Error has only a message.
DriverError(n, m, via) ==
    IF via = "info"
    THEN [info |-> [number |-> n, message |-> m], number |-> 0, message |-> ""]
    ELSE [info |-> NoCause, number |-> n, message |-> m]

\* the catch of POST /my: status and body for the error caught
BookCatch(err) ==
    LET num == IF err.info.number # 0 THEN err.info.number ELSE err.number
        msg == IF err.info.message # "" THEN err.info.message ELSE err.message IN
    [code |-> BookErrorStatus(num),
     msg |-> IF BookErrorStatus(num) = 400 THEN msg ELSE "Failed to book appointment"]

\* the times of day the booking requests carry
BookTimes == {<<>>,
              <<"1", "2", ":", "0", "0">>,
              <<"2", "5", ":", "0", "0">>,
              <<"1", "2", ":", "0">>}

\* A booking request: the caller's role, whether the body has doctor_id and
\* date, what the Patients lookup gives for the caller, and the time.
BookRequests ==
    [role : Roles, fields : BOOLEAN, patient : {"row", "none", "error"}, time : BookTimes]

\* the date of a body that has one
SomeDate == <<"2", "0", "2", "5", "-", "0", "1", "-", "0", "1">>

\* the errors and the messages the stored procedure and the database raise
SpErrorNumbers == {50000, 50001, 50002, 50003, 50004, 50005, 50006, 50007, 547, 1205}

SpMessages == {"Doctor is not available", "Conflicted with the FOREIGN KEY constraint"}

\* The handler up to the stored procedure: the response it sends, code 0
\* when the request goes through to the stored procedure.
BookPrelude(req) ==
    IF ~isRole(req.role, "Patient")
    THEN [code |-> 403, msg |-> "Only patients can book appointments",
          cause |-> NoCause, calls |-> <<>>]
    ELSE IF ~req.fields \/ req.time = <<>>
    THEN [code |-> 400, msg |-> "doctor_id, date, and time are required",
          cause |-> NoCause, calls |-> <<>>]
    ELSE IF req.patient = "error"
    THEN [code |-> BookCatch(DriverError(1205, "Deadlocked", "info")).code,
          msg |-> BookCatch(DriverError(1205, "Deadlocked", "info")).msg,
          cause |-> [number |-> 1205, message |-> "Deadlocked"],
          calls |-> <<"Patients">>]
    ELSE IF getPatientIdForUser(req.patient) = 0
    THEN [code |-> 404, msg |-> "Patient record not found",
          cause |-> NoCause, calls |-> <<"Patients">>]
    ELSE LET split == splitToDateAndTime(SomeDate, req.time)
             caught == BookCatch(DriverError(0, split.error, "error")) IN
         IF ~split.ok
         THEN [code |-> caught.code, msg |-> caught.msg,
               cause |-> [number |-> 0, message |-> split.error],
               calls |-> <<"Patients">>]
         ELSE [code |-> 0, msg |-> "", cause |-> NoCause, calls |-> <<"Patients">>]

\* the response of the booking handler to req
BookResponse(req, code, msg, cause, calls) ==
    [Response("book", 0, "", code) EXCEPT
        !.msg = msg, !.cause = cause, !.req = req, !.calls = calls]

\* the request is answered before the stored procedure is reached
BookReject ==
    /\ book.pc = "idle"
    /\ \E req \in BookRequests :
         LET out == BookPrelude(req) IN
         /\ out.code # 0
         /\ resp' = BookResponse(req, out.code, out.msg, out.cause, out.calls)
    /\ mail' = NoMail
    /\ UNCHANGED <<appts, notifs, now, emailImpl, recordsVars, book, cancel, sweep, cronDay>>

\* the stored procedure raises an error, or returns no appointment_id
BookSpFailsMissingIdIgnored ==
    /\ book.pc = "idle"
    /\ \E req \in BookRequests :
         /\ BookPrelude(req).code = 0
         /\ \/ /\ \E n \in SpErrorNumbers, m \in SpMessages, via \in {"info", "error"} :
                    LET caught == BookCatch(DriverError(n, m, via)) IN
                    resp' = BookResponse(req, caught.code, caught.msg,
                                         [number |-> n, message |-> m],
                                         <<"Patients", "ScheduleAppointment">>)
               /\ mail' = NoMail
            \/ /\ resp' = BookResponse(req, 201, "", NoCause,
                                       <<"Patients", "ScheduleAppointment">>)
               /\ mail' = Mail("confirm", 0, TRUE, FALSE)
    /\ UNCHANGED <<appts, notifs, now, emailImpl, recordsVars, book, cancel, sweep, cronDay>>

BookSpFails ==
    /\ book.pc = "idle"
    /\ \E req \in BookRequests :
         /\ BookPrelude(req).code = 0
         /\ \/ \E n \in SpErrorNumbers, m \in SpMessages, via \in {"info", "error"} :
                 LET caught == BookCatch(DriverError(n, m, via)) IN
                 resp' = BookResponse(req, caught.code, caught.msg,
                                      [number |-> n, message |-> m],
                                      <<"Patients", "ScheduleAppointment">>)
            \/ resp' = BookResponse(req, 500, "SP did not return appointment_id", NoCause,
                                    <<"Patients", "ScheduleAppointment">>)
    /\ mail' = NoMail
    /\ UNCHANGED <<appts, notifs, now, emailImpl, recordsVars, book, cancel, sweep, cronDay>>

\* the stored procedure commits the appointment and returns its id; the
\* bookings are those of patient 1 with doctor 1
BookSpOk ==
    /\ book.pc = "idle"
    /\ NextApptId \in 1 .. MaxBooked
    /\ \E date \in ApptTimes :
         /\ date > now
         /\ appts' = ScheduleAppointment(appts, NextApptId, 1, 1, date)
    /\ book' = [BookIdle EXCEPT !.pc = "notify", !.id = NextApptId]
    /\ resp' = NoResponse
    /\ mail' = NoMail
    /\ UNCHANGED <<notifs, now, emailImpl, recordsVars, cancel, sweep, cronDay>>

\* The outcome of the best-effort block after an e-mail attempt: the row is
\* inserted, or the failed insert is caught and logged and leaves no row.
LogAttemptSentOnly(ns, id, sentOK, t, kind, insertOK) ==
    IF insertOK /\ sentOK THEN Append(ns, NotifRow(id, sentOK, t, kind)) ELSE ns

LogAttempt(ns, id, sentOK, t, kind, insertOK) ==
    IF insertOK THEN Append(ns, NotifRow(id, sentOK, t, kind)) ELSE ns

\* What the best-effort block lets through to the handler: its try/catch
\* absorbs a failed lookup and a failed insert, so the handler goes on to 201.
NotifyStatusUncaught(lookupOK, insertOK) == IF lookupOK /\ insertOK THEN 201 ELSE 500

NotifyStatus(lookupOK, insertOK) == 201

\* The best-effort block of POST /my: the display-data lookup, the
\* confirmation e-mail and the INSERT INTO Notifications.  The lookup and the
\* e-mail touch no table, so they are taken in one step with the insert.  A
\* failed lookup skips the e-mail and the insert.
BookNotify ==
    /\ book.pc = "notify"
    /\ \E lookupOK, configured, delivered, insertOK \in BOOLEAN :
         LET sentOK == sendEmail(emailImpl, configured, delivered) = "ok" IN
         /\ IF lookupOK
            THEN /\ insertOK => Len(notifs) < MaxNotif
                 /\ notifs' = LogAttempt(notifs, book.id, sentOK, now, "confirm", insertOK)
                 /\ mail' = Mail("confirm", book.id, configured /\ delivered, insertOK)
            ELSE /\ notifs' = notifs
                 /\ mail' = NoMail
         /\ IF NotifyStatus(lookupOK, insertOK) = 201
            THEN /\ book' = [book EXCEPT !.pc = "respond", !.logged = lookupOK /\ insertOK]
                 /\ resp' = NoResponse
            ELSE /\ book' = BookIdle
                 /\ resp' = Response("book", 0, "", NotifyStatus(lookupOK, insertOK))
    /\ UNCHANGED <<appts, now, emailImpl, recordsVars, cancel, sweep, cronDay>>

\* res.status(201).json({ appointment_id })
BookRespond ==
    /\ book.pc = "respond"
    /\ book' = BookIdle
    /\ resp' = Response("book", book.id, "", 201)
    /\ mail' = NoMail
    /\ UNCHANGED <<appts, notifs, now, emailImpl, recordsVars, cancel, sweep, cronDay>>

\* ---------------------------------------------- PUT /api/appointments/:id
\* a row whose UPDATE by the open cancel transaction is not yet committed
Locked(id) == cancel.pc \in {"purge", "commit"} /\ cancel.id = id

\* UPDATE Appointments SET status = @status WHERE appointment_id = @id
UpdateStatusDropped(as, id, status) == as

UpdateStatus(as, id, status) == [as EXCEPT ![id].status = status]

\* the statuses PUT accepts
ValidStatusAny(status) == TRUE

ValidStatus(status) == status \in {"Scheduled", "Completed", "Cancelled"}

\* the whole handler: validation, the UPDATE, the response
PutOf(id, status, ok) ==
    /\ ~Locked(id)
    /\ IF ~ValidStatus(status)
       THEN /\ resp' = Response("put", id, status, 400)
            /\ appts' = appts
       ELSE IF ~ok
       THEN /\ resp' = Response("put", id, status, 500)
            /\ appts' = appts
       ELSE IF ~Exists(id)
       THEN /\ resp' = Response("put", id, status, 404)
            /\ appts' = appts
       ELSE /\ resp' = Response("put", id, status, 200)
            /\ appts' = UpdateStatus(appts, id, status)
    /\ mail' = NoMail
    /\ UNCHANGED <<notifs, now, emailImpl, recordsVars, book, cancel, sweep, cronDay>>

\* any request: any id, a status inside or outside the accepted set
Put == \E id \in ReqIds \ {0}, status \in Statuses \cup {"Pending", "cancelled", ""},
          ok \in BOOLEAN :
          PutOf(id, status, ok)

\* the requests that reach a row: the others only answer
PutRow == \E id \in ApptIds, status \in Statuses : Exists(id) /\ PutOf(id, status, TRUE)

\* ------------------------------------------- DELETE /api/appointments/:id
\* the rows the purge deletes: those of the appointment that were never sent
PendingOfAny(ns, id) == RowsOf(ns, id)

PendingOf(ns, id) == {i \in RowsOf(ns, id) : ns[i].sent_at = NULL}

\* SELECT @@ROWCOUNT AS affected, after the UPDATE of step 1
AffectedAlways(id) == 1

Affected(id) == IF Exists(id) THEN 1 ELSE 0

\* UPDATE Appointments SET status = 'Cancelled' WHERE appointment_id = @id
CancelStatusToggle(as, id) ==
    UpdateStatus(as, id, IF as[id].status = "Cancelled" THEN "Scheduled" ELSE "Cancelled")

CancelStatusDeletes(as, id) == [as EXCEPT ![id] = NoAppt]

CancelStatus(as, id) == UpdateStatus(as, id, "Cancelled")

\* Number(req.params.id) and the 400 for a falsy id; tx.begin(); then
\* 1) UPDATE ... SET status = 'Cancelled': zero rows affected is a rollback
\* and a 404, an error is a rollback and a 500.  The UPDATE locks the row.
CancelUpdateOf(id, ok) ==
    /\ cancel.pc = "idle"
    /\ IF id = 0
       THEN cancel' = cancel /\ resp' = Response("cancel", id, "", 400)
       ELSE IF ~ok
       THEN cancel' = cancel /\ resp' = Response("cancel", id, "", 500)
       ELSE IF Affected(id) = 0
       THEN cancel' = cancel /\ resp' = Response("cancel", id, "", 404)
       ELSE cancel' = [CancelIdle EXCEPT !.pc = "purge", !.id = id] /\ resp' = NoResponse
    /\ mail' = NoMail
    /\ UNCHANGED <<appts, notifs, now, emailImpl, recordsVars, book, sweep, cronDay>>

\* any request: any id, the database up or down
CancelUpdate == \E id \in ReqIds, ok \in BOOLEAN : CancelUpdateOf(id, ok)

\* the requests that reach a row: the others only answer
CancelUpdateRow == \E id \in ApptIds : Exists(id) /\ CancelUpdateOf(id, TRUE)

\* 2) DELETE FROM Notifications WHERE appointment_id = @id AND sent_at IS NULL
CancelPurgeOutsideTransaction ==
    /\ cancel.pc = "purge"
    /\ \E ok \in BOOLEAN :
         IF ok
         THEN /\ cancel' = [cancel EXCEPT !.pc = "commit", !.del = PendingOf(notifs, cancel.id)]
              /\ resp' = NoResponse
              /\ appts' = appts
         ELSE /\ cancel' = CancelIdle
              /\ resp' = Response("cancel", cancel.id, "", 500)
              /\ appts' = CancelStatus(appts, cancel.id)
    /\ mail' = NoMail
    /\ UNCHANGED <<notifs, now, emailImpl, recordsVars, book, sweep, cronDay>>

CancelPurge ==
    /\ cancel.pc = "purge"
    /\ \E ok \in BOOLEAN :
         IF ok
         THEN /\ cancel' = [cancel EXCEPT !.pc = "commit", !.del = PendingOf(notifs, cancel.id)]
              /\ resp' = NoResponse
         ELSE /\ cancel' = CancelIdle
              /\ resp' = Response("cancel", cancel.id, "", 500)
    /\ mail' = NoMail
    /\ UNCHANGED <<appts, notifs, now, emailImpl, recordsVars, book, sweep, cronDay>>

\* tx.commit(): the status flip and the purge become visible together;
\* a failed commit is a rollback and a 500
CancelCommitMailsAnyway ==
    /\ cancel.pc = "commit"
    /\ \/ /\ appts' = CancelStatus(appts, cancel.id)
          /\ notifs' = Without(notifs, cancel.del, 1)
          /\ cancel' = [cancel EXCEPT !.pc = "post", !.del = {}]
          /\ resp' = NoResponse
          /\ mail' = NoMail
       \/ /\ cancel' = CancelIdle
          /\ resp' = Response("cancel", cancel.id, "", 500)
          /\ mail' = Mail("cancel", cancel.id, TRUE, FALSE)
          /\ UNCHANGED <<appts, notifs>>
    /\ UNCHANGED <<now, emailImpl, recordsVars, book, sweep, cronDay>>

CancelCommit ==
    /\ cancel.pc = "commit"
    /\ \/ /\ appts' = CancelStatus(appts, cancel.id)
          /\ notifs' = Without(notifs, cancel.del, 1)
          /\ cancel' = [cancel EXCEPT !.pc = "post", !.del = {}]
          /\ resp' = NoResponse
       \/ /\ cancel' = CancelIdle
          /\ resp' = Response("cancel", cancel.id, "", 500)
          /\ UNCHANGED <<appts, notifs>>
    /\ mail' = NoMail
    /\ UNCHANGED <<now, emailImpl, recordsVars, book, sweep, cronDay>>

\* 3) after the commit: the patient and doctor lookup, whose failure reaches
\* the outer catch (the rollback of the committed transaction fails and is
\* ignored) and is a 500; then the cancellation e-mail if the lookup found a
\* row, whose failure is logged; then the acknowledgement
CancelPost ==
    /\ cancel.pc = "post"
    /\ \E ok, row, delivered \in BOOLEAN :
         /\ resp' = Response("cancel", cancel.id, "", IF ok THEN 200 ELSE 500)
         /\ mail' = IF ok /\ row THEN Mail("cancel", cancel.id, delivered, FALSE) ELSE NoMail
    /\ cancel' = CancelIdle
    /\ UNCHANGED <<appts, notifs, now, emailImpl, recordsVars, book, sweep, cronDay>>

\* ------------------------------------------------- the daily reminder cron
\* n.status = 'Sent' AND n.sent_at >= DATEADD(day, -2, a.appointment_date)
Reminded(ns, id, date) ==
    \E i \in RowsOf(ns, id) :
        ns[i].status = "Sent" /\ ns[i].sent_at >= date - DedupeDays * TicksPerDay

\* CAST(a.appointment_date AS DATE) = CAST(DATEADD(day, 1, GETUTCDATE()) AS DATE)
IsTomorrowOrLater(date, t) == dateOf(date) >= dateOf(t) + 1

IsTomorrow(date, t) == dateOf(date) = dateOf(t) + 1

\* the selection query of the reminder job
SelectedAnyStatus(as, ns, t) ==
    {id \in ApptIds : /\ as[id].status # "None"
                      /\ IsTomorrow(as[id].appointment_date, t)
                      /\ ~Reminded(ns, id, as[id].appointment_date)}

Selected(as, ns, t) ==
    {id \in ApptIds : /\ as[id].status = "Scheduled"
                      /\ IsTomorrow(as[id].appointment_date, t)
                      /\ ~Reminded(ns, id, as[id].appointment_date)}

\* The cron fires once a day and runs the selection query; skipped records
\* the appointments that were Cancelled when the query ran.  A tick takes
\* the first free slot.
SweepSelect(s) ==
    /\ sweep[s].pc = "idle"
    /\ \A r \in 1 .. (s - 1) : sweep[r].pc # "idle"
    /\ cronDay < dateOf(now)
    /\ cronDay' = dateOf(now)
    /\ \E ok \in BOOLEAN :
         sweep' = [sweep EXCEPT ![s] =
                     IF ~ok THEN SweepIdle
                     ELSE [pc |-> "loop", todo |-> Selected(appts, notifs, now),
                           skipped |-> {id \in ApptIds : appts[id].status = "Cancelled"}]]
    /\ resp' = NoResponse
    /\ mail' = NoMail
    /\ UNCHANGED <<appts, notifs, now, emailImpl, recordsVars, book, cancel>>

\* One turn of the loop: the reminder e-mail of the next selected appointment
\* and its INSERT INTO Notifications.  A failed send is caught and recorded
\* as Failed; a failed insert leaves the loop through the outer catch.
SweepRemindStopOnSendFailure(s) ==
    /\ sweep[s].pc = "loop"
    /\ \E id \in sweep[s].todo, configured, delivered, insertOK \in BOOLEAN :
         LET sentOK == sendEmail(emailImpl, configured, delivered) = "ok"
             left == sweep[s].todo \ {id} IN
         /\ insertOK => Len(notifs) < MaxNotif
         /\ notifs' = LogAttempt(notifs, id, sentOK, now, "reminder", insertOK)
         /\ mail' = Mail("reminder", id, configured /\ delivered, insertOK)
         /\ sweep' = [sweep EXCEPT ![s] =
                        IF ~insertOK \/ ~sentOK THEN SweepIdle
                        ELSE [sweep[s] EXCEPT !.todo = left]]
    /\ resp' = NoResponse
    /\ UNCHANGED <<appts, now, emailImpl, recordsVars, book, cancel, cronDay>>

SweepRemind(s) ==
    /\ sweep[s].pc = "loop"
    /\ \E id \in sweep[s].todo, configured, delivered, insertOK \in BOOLEAN :
         LET sentOK == sendEmail(emailImpl, configured, delivered) = "ok"
             left == sweep[s].todo \ {id} IN
         /\ insertOK => Len(notifs) < MaxNotif
         /\ notifs' = LogAttempt(notifs, id, sentOK, now, "reminder", insertOK)
         /\ mail' = Mail("reminder", id, configured /\ delivered, insertOK)
         /\ sweep' = [sweep EXCEPT ![s] =
                        IF ~insertOK THEN SweepIdle
                        ELSE [sweep[s] EXCEPT !.todo = left]]
    /\ resp' = NoResponse
    /\ UNCHANGED <<appts, now, emailImpl, recordsVars, book, cancel, cronDay>>

\* the loop has gone through the selection: the tick ends
SweepDone(s) ==
    /\ sweep[s].pc = "loop"
    /\ sweep[s].todo = {}
    /\ sweep' = [sweep EXCEPT ![s] = SweepIdle]
    /\ resp' = NoResponse
    /\ mail' = NoMail
    /\ UNCHANGED <<appts, notifs, now, emailImpl, recordsVars, book, cancel, cronDay>>

\* --------------------------------------------------------- specifications
\* The lifecycle: every handler and the cron job, interleaved at their
\* awaits.  Requests that are answered without reaching a row (a rejected
\* booking, an unknown id, an invalid status) change nothing but the
\* response, and are left to SpecBooking and SpecRequests.
Next ==
    \/ Tick
    \/ BookSpOk
    \/ BookNotify
    \/ BookRespond
    \/ PutRow
    \/ CancelUpdateRow
    \/ CancelPurge
    \/ CancelCommit
    \/ CancelPost
    \/ \E s \in SweepIds : SweepSelect(s)
    \/ \E s \in SweepIds : SweepRemind(s)
    \/ \E s \in SweepIds : SweepDone(s)

Spec == Init /\ [][Next]_vars

\* The reminder job alone over a table of Scheduled appointments, so that a
\* tick selects several of them.
InitSweep ==
    /\ appts \in [ApptIds -> {[status |-> "Scheduled", appointment_date |-> d,
                               patient_id |-> 1, doctor_id |-> 1] : d \in ApptTimes}]
    /\ notifs = <<>>
    /\ now = 0
    /\ emailImpl \in EmailImpls
    /\ book = BookIdle
    /\ cancel = CancelIdle
    /\ sweep = [s \in SweepIds |-> SweepIdle]
    /\ cronDay = -1
    /\ resp = NoResponse
    /\ mail = NoMail
    /\ RecordsIdle

NextSweep ==
    \/ Tick
    \/ \E s \in SweepIds : SweepSelect(s)
    \/ \E s \in SweepIds : SweepRemind(s)
    \/ \E s \in SweepIds : SweepDone(s)

SpecSweep == InitSweep /\ [][NextSweep]_vars

\* GET /api/doctor/patient/:patientId/appointments over a table of
\* appointments of several patients with several doctors.
DoctorIds == {1, 2}

PatientIds == {1, 2}

InitDoctor ==
    /\ appts \in [ApptIds -> {[status |-> st, appointment_date |-> TicksPerDay,
                               patient_id |-> p, doctor_id |-> d] :
                                 st \in {"Scheduled", "Cancelled"},
                                 p \in PatientIds, d \in DoctorIds}]
    /\ notifs = <<>>
    /\ now = 0
    /\ emailImpl \in EmailImpls
    /\ book = BookIdle
    /\ cancel = CancelIdle
    /\ sweep = [s \in SweepIds |-> SweepIdle]
    /\ cronDay = -1
    /\ resp = NoResponse
    /\ mail = NoMail
    /\ RecordsIdle

\* SELECT ... FROM Appointments WHERE patient_id = @pid
AppointmentsOfPatient(as, pid, doctorId) ==
    {id \in ApptIds : as[id].status # "None" /\ as[id].patient_id = pid}

\* The handler, for an authenticated provider: doctorId is the doctor_id of
\* the caller's Doctors row (0: none), pid is Number(req.params.patientId).
PatientAppointments ==
    /\ \E doctorId \in DoctorIds \cup {0}, pid \in PatientIds \cup {0}, ok1, ok2 \in BOOLEAN :
         resp' = IF ~ok1 THEN Response("list", pid, "", 500)
                 ELSE IF doctorId = 0 THEN Response("list", pid, "", 404)
                 ELSE IF ~ok2 THEN Response("list", pid, "", 500)
                 ELSE [Response("list", pid, "", 200) EXCEPT
                          !.rows = AppointmentsOfPatient(appts, pid, doctorId),
                          !.caller = doctorId]
    /\ mail' = NoMail
    /\ UNCHANGED <<appts, notifs, now, emailImpl, recordsVars, book, cancel, sweep, cronDay>>

NextDoctor == PatientAppointments \/ PutRow

SpecDoctor == InitDoctor /\ [][NextDoctor]_vars

\* The time normalization of the booking handler over many time strings:
\* the pieces a client may put between the separators
TimePieces == {<<>>, <<"0">>, <<"0", "0">>, <<"0", "7">>, <<"1", "2">>, <<"2", "3">>,
               <<"2", "4">>, <<"5", "9">>, <<"6", "0">>, <<"1", "x">>, <<"0", "0", " ">>,
               <<"1", "2", "3">>}

TimeSeparators == {":", "-"}

TimeInputs ==
    {h \o <<a>> \o m : h \in TimePieces, a \in TimeSeparators, m \in TimePieces}
    \cup {h \o <<a>> \o m \o <<b>> \o x :
             h \in TimePieces, a \in TimeSeparators, m \in TimePieces,
             b \in TimeSeparators, x \in TimePieces}

\* a booking request is at its call of splitToDateAndTime
InitTime ==
    /\ appts = [i \in ApptIds |-> NoAppt]
    /\ notifs = <<>>
    /\ now = 0
    /\ emailImpl \in EmailImpls
    /\ \E t \in TimeInputs : book = [BookIdle EXCEPT !.pc = "split", !.time = t]
    /\ cancel = CancelIdle
    /\ sweep = [s \in SweepIds |-> SweepIdle]
    /\ cronDay = -1
    /\ resp = NoResponse
    /\ mail = NoMail
    /\ RecordsIdle

\* const { dateOnly, timeOnly } = splitToDateAndTime(date, time)
SplitTime ==
    /\ book.pc = "split"
    /\ LET out == splitToDateAndTime(SomeDate, book.time) IN
       book' = [book EXCEPT !.split = out, !.pc = IF out.ok THEN "split-ok" ELSE "thrown"]
    /\ resp' = NoResponse
    /\ mail' = NoMail
    /\ UNCHANGED <<appts, notifs, now, emailImpl, recordsVars, cancel, sweep, cronDay>>

\* the normalized time sent as the time of a new request
SplitAgain ==
    /\ book.pc = "split-ok"
    /\ book' = [book EXCEPT !.time = book.split.timeOnly,
                            !.split = splitToDateAndTime(SomeDate, book.split.timeOnly),
                            !.pc = "split-again"]
    /\ resp' = NoResponse
    /\ mail' = NoMail
    /\ UNCHANGED <<appts, notifs, now, emailImpl, recordsVars, cancel, sweep, cronDay>>

NextTime == SplitTime \/ SplitAgain

SpecTime == InitTime /\ [][NextTime]_vars

\* The lazily initialized container client of routes/records.js, with
\* concurrent requests inside getContainerClient.
InitRecords ==
    /\ appts = [i \in ApptIds |-> NoAppt]
    /\ notifs = <<>>
    /\ now = 0
    /\ emailImpl \in EmailImpls
    /\ book = BookIdle
    /\ cancel = CancelIdle
    /\ sweep = [s \in SweepIds |-> SweepIdle]
    /\ cronDay = -1
    /\ resp = NoResponse
    /\ mail = NoMail
    /\ _containerClient = 0
    /\ clientCalls = [c \in Callers |-> ClientCallIdle]
    /\ constructed = 0
    /\ env \in {[credentials |-> b] : b \in BOOLEAN}

\* what a call of getContainerClient gives its caller: the client it
\* returns (code 200) or the error it throws (code 500)
ClientResult(c, client, code) ==
    [Response("getContainerClient", c, "", code) EXCEPT !.rows = {client} \ {0}]

\* getContainerClient up to its await: the cached client if there is one,
\* else the credentials check and the construction of a new client
GetContainerClient(c) ==
    /\ clientCalls[c].pc = "idle"
    /\ IF _containerClient # 0
       THEN /\ resp' = ClientResult(c, _containerClient, 200)
            /\ UNCHANGED <<clientCalls, constructed>>
       ELSE IF ~env.credentials
       THEN /\ resp' = ClientResult(c, 0, 500)
            /\ UNCHANGED <<clientCalls, constructed>>
       ELSE /\ constructed < MaxConstructed
            /\ constructed' = constructed + 1
            /\ clientCalls' = [clientCalls EXCEPT ![c] =
                                  [pc |-> "createIfNotExists",
                                   containerClient |-> constructed + 1]]
            /\ resp' = NoResponse
    /\ mail' = NoMail
    /\ UNCHANGED <<appts, notifs, now, emailImpl, book, cancel, sweep, cronDay,
                   _containerClient, env>>

\* await containerClient.createIfNotExists() resolves, and the client of
\* this call is stored and returned; or it rejects and the call throws
CreateIfNotExists(c) ==
    /\ clientCalls[c].pc = "createIfNotExists"
    /\ \E ok \in BOOLEAN :
         /\ _containerClient' = IF ok THEN clientCalls[c].containerClient
                                      ELSE _containerClient
         /\ resp' = IF ok THEN ClientResult(c, clientCalls[c].containerClient, 200)
                          ELSE ClientResult(c, 0, 500)
    /\ clientCalls' = [clientCalls EXCEPT ![c] = ClientCallIdle]
    /\ mail' = NoMail
    /\ UNCHANGED <<appts, notifs, now, emailImpl, book, cancel, sweep, cronDay,
                   constructed, env>>

NextRecords == \E c \in Callers : GetContainerClient(c) \/ CreateIfNotExists(c)

SpecRecords == InitRecords /\ [][NextRecords]_vars

\* The booking handler alone, with every request and every error of the
\* stored procedure.
NextBooking ==
    \/ BookReject
    \/ BookSpFails
    \/ BookSpOk
    \/ BookNotify
    \/ BookRespond

SpecBooking == Init /\ [][NextBooking]_vars

\* The status update and the cancel handlers with every input, valid or
\* not, beside a booking, without the clock and the cron job.
NextRequests ==
    \/ BookSpOk
    \/ BookNotify
    \/ BookRespond
    \/ Put
    \/ CancelUpdate
    \/ CancelPurge
    \/ CancelCommit
    \/ CancelPost

SpecRequests == Init /\ [][NextRequests]_vars

\* ------------------------------------------------------------- properties
\* the rows of appointment id, in table order
RowSeqOf(ns, id) == SelectSeq(ns, LAMBDA r : r.appointment_id = id)

\* ns2 is ns with some rows removed and none added
IsPurgeOf(ns2, ns) == \E del \in SUBSET (1 .. Len(ns)) : ns2 = Without(ns, del, 1)

\* the appointment a step of the cancel handler works on
CancelTarget == IF cancel.pc = "idle" THEN cancel'.id ELSE cancel.id

\* C1: when cancel acknowledges (200) for an appointment, the appointment is
\* Cancelled and none of its Notification rows has sent_at NULL.
C1_AckMeansCancelledAndPurged ==
    (resp.op = "cancel" /\ resp.code = 200) =>
        /\ appts[resp.id].status = "Cancelled"
        /\ PendingOf(notifs, resp.id) = {}

\* C2: in every reachable state, no Cancelled appointment has a Notification
\* row whose sent_at is NULL.
C2_NoPendingRowOnCancelled ==
    \A id \in ApptIds : appts[id].status = "Cancelled" => PendingOf(notifs, id) = {}

\* C3 as written: a cancel of an id that has no row is answered 404 (a
\* database error, answered 500, set aside).
C3_UnknownIdIsNotFound ==
    (resp.op = "cancel" /\ ~Exists(resp.id) /\ resp.code # 500) => resp.code = 404

\* C3: a cancel of an id that has no row is answered 404 when the id is a
\* nonzero number and 400 when it is 0 (a database error, answered 500, set
\* aside), and a cancel answered 404 or 400 changes no row of either table.
C3_UnknownIdRejectedWithoutWrites ==
    /\ []((resp.op = "cancel" /\ ~Exists(resp.id) /\ resp.code # 500) =>
              resp.code = IF resp.id = 0 THEN 400 ELSE 404)
    /\ [][(resp'.op = "cancel" /\ resp'.code \in {400, 404}) =>
              UNCHANGED <<appts, notifs>>]_vars

\* a cancel of an unknown nonzero id was answered 404 while both tables hold rows
C3_Witness ==
    /\ resp.op = "cancel" /\ resp.code = 404 /\ resp.id # 0 /\ ~Exists(resp.id)
    /\ \E id \in ApptIds : Exists(id)
    /\ Len(notifs) > 0

\* C4: every step of a cancel of an appointment that is already Cancelled
\* leaves it Cancelled and adds no Notification row: the rows of the
\* appointment after the step are rows it had before.
C4_SecondCancelAddsNothing ==
    [][(cancel' # cancel /\ CancelTarget \in ApptIds
          /\ appts[CancelTarget].status = "Cancelled") =>
            /\ appts'[CancelTarget].status = "Cancelled"
            /\ IsPurgeOf(RowSeqOf(notifs', CancelTarget), RowSeqOf(notifs, CancelTarget))
            /\ Len(notifs') <= Len(notifs)]_vars

\* a cancel of an appointment that is already Cancelled is about to commit
C4_Witness ==
    cancel.pc = "commit" /\ appts[cancel.id].status = "Cancelled"

\* C5: the reminder job sends no reminder for an appointment whose
\* cancellation has committed (the cancel handler is past its commit and the
\* appointment is Cancelled).
C5_NoReminderAfterCommittedCancel ==
    ~(/\ mail.kind = "reminder"
      /\ cancel.pc = "post" /\ cancel.id = mail.id
      /\ appts[mail.id].status = "Cancelled")

\* C6: a tick whose selection query ran when an appointment was Cancelled
\* has not selected it, and no turn of its loop sends an e-mail or inserts a
\* Notification row for it.
C6_TickSkipsCancelled ==
    /\ [](\A s \in SweepIds : sweep[s].todo \cap sweep[s].skipped = {})
    /\ [][\A s \in SweepIds :
            (sweep[s].pc = "loop" /\ sweep'[s] # sweep[s]) =>
               /\ mail'.kind = "reminder" => mail'.id \notin sweep[s].skipped
               /\ Len(notifs') > Len(notifs) =>
                     notifs'[Len(notifs')].appointment_id \notin sweep[s].skipped]_vars

\* a tick is in its loop whose query ran over a Cancelled appointment of tomorrow
C6_Witness ==
    \E s \in SweepIds :
        /\ sweep[s].pc = "loop"
        /\ cronDay = dateOf(now)
        /\ \E id \in sweep[s].skipped : IsTomorrow(appts[id].appointment_date, now)

\* the reminder rows of an appointment with status Sent inside the dedupe window
SentReminders(id) ==
    {i \in RowsOf(notifs, id) :
        /\ notifs[i].kind = "reminder"
        /\ notifs[i].status = "Sent"
        /\ notifs[i].sent_at >= appts[id].appointment_date - DedupeDays * TicksPerDay}

\* C7: no appointment has two reminder rows with status Sent inside the
\* dedupe window, however the ticks overlap.
C7_OneSentReminder ==
    \A id \in ApptIds : Cardinality(SentReminders(id)) <= 1

\* two ticks overlap and a reminder has been recorded as Sent
C7_Witness ==
    /\ \A s \in SweepIds : sweep[s].pc = "loop"
    /\ \E id \in ApptIds : SentReminders(id) # {}

\* C8: from the moment the stored procedure has returned the id, the
\* appointment exists, and the handler ends by answering 201 with that id,
\* whatever the lookup, the e-mail and the insert did.
C8_BookingAnswersCreated ==
    /\ [](book.pc # "idle" => Exists(book.id))
    /\ [][(book.pc # "idle" /\ book'.pc = "idle") =>
              /\ resp' = Response("book", book.id, "", 201)
              /\ appts'[book.id].status # "None"]_vars

\* a booking was answered 201 although no Notification row was written for it
C8_Witness ==
    /\ resp.op = "book" /\ resp.code = 201
    /\ Exists(resp.id)
    /\ RowsOf(notifs, resp.id) = {}

C10_FailureRecordedAsFailed ==
    (mail.kind \in {"confirm", "reminder"} /\ mail.logged) =>
        LET row == notifs[Len(notifs)] IN
        IF mail.delivered
        THEN row.status = "Sent" /\ row.sent_at # NULL
        ELSE row.status = "Failed" /\ row.sent_at = NULL

\* the spellings of the role Patient among the roles drawn
PatientSpellings == {"Patient", "patient", "PATIENT"}

\* C11: a booking that ends on a database error with number n answers 400
\* with the error's message when n is one of 50001..50006 or 547, and 500
\* for any other number.
C11_GuardAndFkErrorsAreInvalidRequest ==
    (resp.op = "book" /\ resp.cause.number # 0) =>
        IF resp.cause.number \in (50001 .. 50006) \cup {547}
        THEN resp.code = 400 /\ resp.msg = resp.cause.message
        ELSE resp.code = 500

\* a foreign-key violation of the stored procedure was answered 400 with its message
C11_Witness ==
    /\ resp.op = "book" /\ resp.cause.number = 547
    /\ resp.code = 400 /\ resp.msg = resp.cause.message
    /\ "ScheduleAppointment" \in {resp.calls[i] : i \in 1 .. Len(resp.calls)}

\* HH:MM or HH:MM:SS with hour <= 23, minute <= 59, second <= 59
WellFormedTime(t) ==
    /\ Len(t) \in {5, 8}
    /\ \A i \in 1 .. Len(t) : IF i \in {3, 6} THEN t[i] = ":" ELSE IsDigit(t[i])
    /\ NumberOf(SubSeq(t, 1, 2)) <= 23
    /\ NumberOf(SubSeq(t, 4, 5)) <= 59
    /\ Len(t) = 8 => NumberOf(SubSeq(t, 7, 8)) <= 59

\* C12: a booking request of a patient with a profile whose body is complete
\* but whose time is malformed is answered 400, and the stored procedure is
\* not invoked for it.
C12_MalformedTimeIsInvalidRequest ==
    (/\ resp.op = "book"
     /\ resp.req.role \in PatientSpellings /\ resp.req.fields /\ resp.req.patient = "row"
     /\ ~WellFormedTime(resp.req.time)) =>
        /\ resp.code = 400
        /\ \A i \in 1 .. Len(resp.calls) : resp.calls[i] # "ScheduleAppointment"

C14_RoleGuard ==
    /\ []((resp.op = "book" /\ resp.req # NoRequest) =>
            /\ resp.code = 403 <=> resp.req.role \notin PatientSpellings
            /\ resp.code = 403 => resp.calls = <<>>)
    /\ [][(resp'.op = "book" /\ resp'.code = 403) => UNCHANGED <<appts, notifs>>]_vars

\* a request without a role was answered 403 while an appointment exists
C14_Witness ==
    /\ resp.op = "book" /\ resp.code = 403 /\ resp.req.role = ""
    /\ \E id \in ApptIds : Exists(id)

\* C15: a cancel that ends before its commit has taken effect is answered
\* 400, 404 or 500, never acknowledged, and it leaves every Appointment and
\* Notification row as it was: a failed begin, UPDATE, purge or commit is a
\* 500 with neither the status flip nor the purge visible.
C15_FailedCancelIsRolledBack ==
    [][(cancel.pc \in {"idle", "purge", "commit"} /\ cancel'.pc = "idle"
          /\ resp'.op = "cancel") =>
            /\ resp'.code \in {400, 404, 500}
            /\ cancel.pc # "idle" => resp'.code = 500
            /\ UNCHANGED <<appts, notifs>>]_vars

\* a cancel was answered 500 and its appointment is still Scheduled with its pending row
C15_Witness ==
    /\ resp.op = "cancel" /\ resp.code = 500
    /\ Exists(resp.id) /\ appts[resp.id].status = "Scheduled"
    /\ PendingOf(notifs, resp.id) # {}

\* C16: once the cancel transaction has committed, the handler ends by
\* acknowledging (200), whatever the lookup and the e-mail do.
C16_PostCommitErrorsSwallowed ==
    [][(cancel.pc = "post" /\ cancel'.pc = "idle") => resp'.code = 200]_vars

\* C17: a status update whose status is none of Scheduled, Completed and
\* Cancelled is answered 400, and the step changes no appointment.
C17_InvalidStatusRejected ==
    /\ []((resp.op = "put" /\ resp.status \notin {"Scheduled", "Completed", "Cancelled"}) =>
              resp.code = 400)
    /\ [][(resp'.op = "put" /\ resp'.status \notin {"Scheduled", "Completed", "Cancelled"}) =>
              UNCHANGED <<appts, notifs>>]_vars

\* an update of an existing appointment to the status "cancelled" was answered 400
C17_Witness ==
    /\ resp.op = "put" /\ resp.code = 400 /\ resp.status = "cancelled"
    /\ Exists(resp.id) /\ appts[resp.id].status = "Scheduled"

\* C18: a status update with a valid status (a database error, answered
\* 500, set aside) is answered 404 exactly when the id has no row, and then
\* changes nothing; otherwise it is acknowledged, the appointment has the new
\* status, and no other appointment and no Notification row has changed.
C18_UpdateStatusOutcome ==
    /\ []((resp.op = "put" /\ resp.status \in {"Scheduled", "Completed", "Cancelled"}
             /\ resp.code # 500) =>
              /\ resp.code = 404 <=> ~Exists(resp.id)
              /\ resp.code # 404 => (resp.code = 200 /\ appts[resp.id].status = resp.status))
    /\ [][(resp'.op = "put" /\ resp'.code \in {200, 404}) =>
              /\ notifs' = notifs
              /\ resp'.code = 404 => appts' = appts
              /\ \A j \in ApptIds :
                    /\ j # resp'.id => appts'[j] = appts[j]
                    /\ appts'[j].appointment_date = appts[j].appointment_date]_vars

\* an appointment was set to Completed and the update acknowledged
C18_Witness ==
    /\ resp.op = "put" /\ resp.code = 200 /\ resp.status = "Completed"
    /\ appts[resp.id].status = "Completed"

\* C19: splitToDateAndTime accepts a time exactly when it is HH:MM or
\* HH:MM:SS with hour <= 23, minute <= 59 and second <= 59, gives HH:MM:00
\* for HH:MM and the time itself for HH:MM:SS, throws for every other
\* string, and gives its output back when applied to it.
C19_TimeNormalization ==
    /\ book.pc \in {"split-ok", "thrown"} =>
          /\ book.split.ok <=> WellFormedTime(book.time)
          /\ book.split.ok =>
                book.split.timeOnly =
                   IF Len(book.time) = 5 THEN book.time \o <<":", "0", "0">> ELSE book.time
    /\ book.pc = "split-again" =>
          (book.split.ok /\ book.split.timeOnly = book.time)

\* an HH:MM time was normalized to HH:MM:00
C19_Witness ==
    /\ book.pc = "split-ok"
    /\ Len(book.time) = 5
    /\ book.split.timeOnly = book.time \o <<":", "0", "0">>

\* C20: a turn of the reminder loop whose attempt is recorded, the send
\* having failed or not, has written the row of its appointment and leaves
\* the tick in its loop with every other selected appointment still to do;
\* a tick ends only when none is left or an INSERT failed.
C20_SendFailureDoesNotStopTick ==
    [][\A s \in SweepIds :
          (sweep[s].pc = "loop" /\ sweep'[s] # sweep[s]) =>
             /\ (mail'.kind = "reminder" /\ mail'.logged) =>
                   /\ sweep'[s].pc = "loop"
                   /\ sweep'[s].todo = sweep[s].todo \ {mail'.id}
                   /\ Len(notifs') = Len(notifs) + 1
                   /\ notifs'[Len(notifs')].appointment_id = mail'.id
             /\ sweep'[s].pc = "idle" =>
                   \/ sweep[s].todo = {}
                   \/ mail'.kind = "reminder" /\ ~mail'.logged]_vars

\* the one tick that has fired recorded a failed send for one appointment
\* and then wrote the row of another
C20_Witness ==
    /\ cronDay = 0
    /\ Len(notifs) = 2
    /\ notifs[1].kind = "reminder" /\ notifs[1].status = "Failed"
    /\ notifs[2].kind = "reminder"
    /\ notifs[2].appointment_id # notifs[1].appointment_id

\* C21: the appointments the list of a patient returns to a provider are
\* all appointments with the provider's own doctor_id.
C21_OnlyOwnAppointmentsListed ==
    (resp.op = "list" /\ resp.code = 200) =>
        \A id \in resp.rows : appts[id].doctor_id = resp.caller

\* C22: every change of an appointment's status, by a status update or by
\* a cancel, is from Scheduled to Completed or from Scheduled to Cancelled.
C22_StatusOnlyLeavesScheduled ==
    [][\A id \in ApptIds :
          (appts[id].status # "None" /\ appts'[id].status # appts[id].status) =>
             /\ appts[id].status = "Scheduled"
             /\ appts'[id].status \in {"Completed", "Cancelled"}]_vars

\* C23: a cancellation e-mail is attempted only in the step after the
\* commit of its cancel, the step that acknowledges it: never with a 400,
\* 404 or 500, never while the transaction is open.
C23_CancelMailOnlyAfterCommit ==
    /\ [](mail.kind = "cancel" =>
             (resp.op = "cancel" /\ resp.code = 200 /\ resp.id = mail.id))
    /\ [][mail'.kind = "cancel" => (cancel.pc = "post" /\ cancel.id = mail'.id)]_vars

\* the cancellation e-mail of a Cancelled appointment has been attempted
C23_Witness ==
    /\ mail.kind = "cancel"
    /\ appts[mail.id].status = "Cancelled"

\* C24: every Notification row is Sent with a sent_at or Failed with
\* sent_at NULL.
C24_RowShape ==
    \A i \in 1 .. Len(notifs) :
        \/ notifs[i].status = "Sent" /\ notifs[i].sent_at # NULL
        \/ notifs[i].status = "Failed" /\ notifs[i].sent_at = NULL

\* a Sent confirmation and a Failed reminder are both in the table
C24_Witness ==
    /\ \E i \in 1 .. Len(notifs) : notifs[i].kind = "confirm" /\ notifs[i].status = "Sent"
    /\ \E i \in 1 .. Len(notifs) : notifs[i].kind = "reminder" /\ notifs[i].status = "Failed"

\* the rows of the table that were sent, in table order
SentRows(ns) == SelectSeq(ns, LAMBDA r : r.sent_at # NULL)

\* C25: every step leaves the Notifications table as it was, or appends one
\* row to it, or removes rows from it without changing the others; and the
\* rows with a sent_at are never removed or changed.
C25_NotificationsAppendOnly ==
    [][/\ \/ notifs' = notifs
          \/ Len(notifs') = Len(notifs) + 1 /\ SubSeq(notifs', 1, Len(notifs)) = notifs
          \/ Len(notifs') < Len(notifs) /\ IsPurgeOf(notifs', notifs)
       /\ Len(SentRows(notifs')) >= Len(SentRows(notifs))
       /\ SubSeq(SentRows(notifs'), 1, Len(SentRows(notifs))) = SentRows(notifs)]_vars

\* a cancel is about to commit the purge of a pending row of an appointment
\* that also has a sent row
C25_Witness ==
    /\ cancel.pc = "commit" /\ cancel.del # {}
    /\ \E i \in RowsOf(notifs, cancel.id) : notifs[i].sent_at # NULL

\* C26: no step removes an Appointment row or changes its date, patient or
\* doctor, and a step of the cancel handler changes no appointment but its
\* target.
C26_AppointmentsNeverDeleted ==
    [][\A id \in ApptIds :
          /\ appts[id].status # "None" =>
                /\ appts'[id].status # "None"
                /\ appts'[id].appointment_date = appts[id].appointment_date
                /\ appts'[id].patient_id = appts[id].patient_id
                /\ appts'[id].doctor_id = appts[id].doctor_id
          /\ (cancel' # cancel /\ id # CancelTarget) => appts'[id] = appts[id]]_vars

\* a cancel has committed and the row of its appointment is there, Cancelled
C26_Witness ==
    /\ cancel.pc = "post"
    /\ appts[cancel.id].status = "Cancelled"
    /\ appts[cancel.id].appointment_date # 0

\* C27: once _containerClient is set, no step sets it to another client,
\* whatever calls of getContainerClient were in flight when it was set.
C27_ClientNeverReplaced ==
    [][_containerClient # 0 => _containerClient' = _containerClient]_vars

\* the response of a booking whose stored procedure was called, raised no
\* error and returned no appointment_id
SpGaveNoId(r) ==
    /\ r.op = "book"
    /\ \E i \in 1 .. Len(r.calls) : r.calls[i] = "ScheduleAppointment"
    /\ r.cause = NoCause

\* C28: a booking whose stored procedure completes without an error and
\* without an appointment_id is answered 500, attempts no e-mail and
\* inserts no Notification row.
C28_MissingIdIsServerError ==
    [][SpGaveNoId(resp') =>
          /\ resp'.code = 500
          /\ mail' = NoMail
          /\ UNCHANGED <<appts, notifs>>]_vars

\* a booking was answered "SP did not return appointment_id"
C28_Witness ==
    /\ SpGaveNoId(resp)
    /\ resp.msg = "SP did not return appointment_id"
    /\ mail = NoMail
    /\ notifs = <<>>

\* a reminder of the appointment has been sent
SentReminder(ns, id) ==
    \E i \in RowsOf(ns, id) : ns[i].kind = "reminder" /\ ns[i].status = "Sent"

\* C29: the selection of a tick holds every appointment that is Scheduled,
\* dated tomorrow and without a sent reminder, whether or not a sent
\* booking confirmation of it is in the table.
C29_UnremindedAreSelected ==
    [][\A s \in SweepIds :
          (sweep[s].pc = "idle" /\ sweep'[s].pc = "loop") =>
             \A id \in ApptIds :
                (/\ appts[id].status = "Scheduled"
                 /\ IsTomorrow(appts[id].appointment_date, now)
                 /\ ~SentReminder(notifs, id)) => id \in sweep'[s].todo]_vars

\* C30: a turn of the loop that attempts the reminder of one selected
\* appointment leaves the tick in its loop with the rest of the selection,
\* whether or not its INSERT INTO Notifications succeeded.
C30_InsertFailureDoesNotStopTick ==
    [][\A s \in SweepIds :
          (/\ sweep[s].pc = "loop"
           /\ sweep'[s] # sweep[s]
           /\ mail'.kind = "reminder"
           /\ sweep[s].todo \ {mail'.id} # {}) =>
             /\ sweep'[s].pc = "loop"
             /\ sweep'[s].todo = sweep[s].todo \ {mail'.id}]_vars
====
